---- MODULE Spec2Model ----
(***************************************************************************)
(* Maze-tilting game: Game / LevelManager / MazeController / Maze and the  *)
(* animation loop that drives them (specification Spec); the input devices *)
(* Joystick and DeviceOrientationController on their own (InputSpec); one  *)
(* Maze object driven through its API (MazeSpec); one call of             *)
(* createCompoundBodyFromModel (ConvSpec); the ProgressManager and its     *)
(* localStorage entry (ProgressSpec); and the RankingManager, saving       *)
(* completions (PointsSpec) and looking players up (RankingSpec).          *)
(*                                                                         *)
(* Numbers.  Lengths are fixed-point integers with three decimals          *)
(* (1 unit = 1000), so 0.5 is 500 and 3.5 is 3500.  Angles are whole       *)
(* degrees (maxTilt = PI/12 is 15).  Products with a sine or cosine are    *)
(* rounded to the nearest integer.                                         *)
(*                                                                         *)
(* Orientations.  A quaternion is kept as the sequence of Euler rotations  *)
(* whose product it is: setFromEuler gives a one-element sequence (the     *)
(* empty sequence for the identity) and a.mult(b) is concatenation.        *)
(* Rotating a vector by a product applies the right-most factor first.     *)
(***************************************************************************)
EXTENDS Integers, Sequences, FiniteSets, TLC

VARIABLES
    isPlaying,          \* Game.isPlaying
    hasWon,             \* Game.hasWon
    currentLevelId,     \* Game.currentLevelId (0 = null)
    lm,                 \* the LevelManager (level container)
    world,              \* bodies in the CANNON world (level entities only)
    scene,              \* meshes in the THREE scene (level entities only)
    pending,            \* GLTF loads in flight, one per unfinished Maze.load
    nextId,             \* number of the next Maze object to be constructed
    mouseX, mouseY,     \* MazeController.mouseX / mouseY
    menuVisible,        \* #menu-container does not carry class "hidden"
    winOverlayVisible,  \* #win-overlay does not carry class "hidden"
    nextLevelCallback,  \* MenuManager.nextLevelCallback (0 = null, else the level it starts)
    unlocked,           \* levels whose config has unlocked = true
    frameLog,           \* calls made by the most recent animate() invocation, in order
    joy,                \* the Joystick: pointerId, _keys, value
    gyro,               \* the DeviceOrientationController
    conv,               \* a call of createCompoundBodyFromModel in progress
    pm,                 \* the page's ProgressManager and the localStorage entry it uses
    rk                  \* the RankingManager, its calls in flight and the players table

vars == << isPlaying, hasWon, currentLevelId, lm, world, scene, pending, nextId,
           mouseX, mouseY, menuVisible, winOverlayVisible, nextLevelCallback,
           unlocked, frameLog, joy, gyro, conv, pm, rk >>

----------------------------------------------------------------------------
(* Bounds of the model *)

\* startLevel calls (Maze objects constructed) in one behaviour
MaxLoads == 2

----------------------------------------------------------------------------
(* Fixed-point arithmetic *)

Scale == 10 * 10 * 10

Abs(n) == IF n < 0 THEN -n ELSE n

\* n / d rounded to the nearest integer, halves away from zero (d > 0)
RoundDiv(n, d) == IF n >= 0 THEN (2 * n + d) \div (2 * d) ELSE -((2 * (-n) + d) \div (2 * d))

\* sine and cosine of the angles the model uses, times Scale
SinDeg(a) ==
    LET s == CASE Abs(a) = 0   -> 0
               [] Abs(a) = 15  -> 259
               [] Abs(a) = 30  -> 500
               [] Abs(a) = 90  -> 1000
               [] Abs(a) = 180 -> 0
    IN IF a < 0 THEN -s ELSE s

CosDeg(a) ==
    CASE Abs(a) = 0   -> 1000
      [] Abs(a) = 15  -> 966
      [] Abs(a) = 30  -> 866
      [] Abs(a) = 90  -> 0
      [] Abs(a) = 180 -> -1000

\* a length times a sine/cosine
Mul(v, t) == RoundDiv(v * t, Scale)

----------------------------------------------------------------------------
(* Vectors and quaternions (three.js / cannon-es) *)

Vec(x, y, z) == << x * Scale, y * Scale, z * Scale >>

IdentityQuat == << >>

\* Quaternion.setFromEuler(x, y, z), order XYZ
setFromEuler(x, y, z) ==
    IF x = 0 /\ y = 0 /\ z = 0 THEN IdentityQuat ELSE << << x, y, z >> >>

\* Quaternion.mult: a.mult(b) = a * b
mult(a, b) == a \o b

RotZ(a, v) == << Mul(v[1], CosDeg(a)) - Mul(v[2], SinDeg(a)),
                 Mul(v[1], SinDeg(a)) + Mul(v[2], CosDeg(a)),
                 v[3] >>

RotY(a, v) == << Mul(v[1], CosDeg(a)) + Mul(v[3], SinDeg(a)),
                 v[2],
                 Mul(v[3], CosDeg(a)) - Mul(v[1], SinDeg(a)) >>

RotX(a, v) == << v[1],
                 Mul(v[2], CosDeg(a)) - Mul(v[3], SinDeg(a)),
                 Mul(v[2], SinDeg(a)) + Mul(v[3], CosDeg(a)) >>

\* rotation by one Euler triple, order XYZ: R = Rx * Ry * Rz
RotEuler(e, v) == RotX(e[1], RotY(e[2], RotZ(e[3], v)))

RECURSIVE applyQuaternion(_, _)
\* Vector3.applyQuaternion(q)
applyQuaternion(v, q) ==
    IF q = << >> THEN v ELSE RotEuler(Head(q), applyQuaternion(v, Tail(q)))

----------------------------------------------------------------------------
(* Level configuration (config/levels.config.js): a game of two levels.    *)
(* Entry 1 is level 1 of the source.  Entry 2 carries the data of source   *)
(* level 3 (maze root off the origin, two balls, two zones).               *)

LEVELS_CONFIG ==
    << [ maze   |-> [ position |-> Vec(0, 0, 0), rotation |-> << 0, 0, 0 >> ],
         bounds |-> [ wallDistance |-> 14 * Scale, groundOffsetY |-> 2 * Scale ],
         balls  |-> << [ position |-> Vec(-5, 20, -5), radius |-> 500 ] >>,
         zones  |-> << [ position |-> << 11000, 3500, 11000 >>,
                         size |-> [ width |-> 3000, height |-> 5000, depth |-> 3000 ] ] >> ],
       [ maze   |-> [ position |-> Vec(0, 0, 3), rotation |-> << 0, 0, 0 >> ],
         bounds |-> [ wallDistance |-> 20 * Scale, groundOffsetY |-> 2 * Scale ],
         balls  |-> << [ position |-> Vec(1, 20, 18), radius |-> 500 ],
                       [ position |-> Vec(-1, 20, 18), radius |-> 500 ] >>,
         zones  |-> << [ position |-> << -5000, 2000, -13000 >>,
                         size |-> [ width |-> 3000, height |-> 3000, depth |-> 3000 ] ],
                       [ position |-> << -17000, 2000, -13500 >>,
                         size |-> [ width |-> 2500, height |-> 3000, depth |-> 3000 ] ] >> ] >>

Levels == DOMAIN LEVELS_CONFIG

\* GAME_CONFIG.controls.maxTilt = Math.PI / 12, in degrees
MaxTiltDeg == 15

----------------------------------------------------------------------------
(* Entities.  A body or mesh is identified by << kind, n, k >>: the kind,  *)
(* the number of the Maze object whose load created it, and its index.     *)

ZeroVec == << 0, 0, 0 >>

\* a Maze as constructed: mesh = null, body = null, loaded = false (id 0 stands for null)
NullMaze == [ id |-> 0, loaded |-> FALSE, mesh |-> FALSE, body |-> FALSE,
              meshPosition |-> ZeroVec, meshRotation |-> << 0, 0, 0 >>,
              bodyPosition |-> ZeroVec, bodyQuaternion |-> IdentityQuat ]

newMaze(id) == [ NullMaze EXCEPT !.id = id ]

\* the loader's success callback of Maze.load, on the Maze object m
MazeOnLoad(m, options) ==
    [ m EXCEPT !.mesh = TRUE,
               !.meshPosition = options.position,
               !.meshRotation = options.rotation,
               !.body = TRUE,
               !.bodyPosition = options.position,
               !.bodyQuaternion = IdentityQuat,
               !.loaded = TRUE ]

\* Object3D.quaternion of the maze root: always the quaternion of its Euler rotation
mazeMeshQuaternion(m) == setFromEuler(m.meshRotation[1], m.meshRotation[2], m.meshRotation[3])

\* Mutation of setRotation: loaded is not consulted
setRotationUnguarded(m, x, y, z) ==
    [ m EXCEPT !.meshRotation = << x, y, z >>,
               !.bodyPosition = m.meshPosition,
               !.bodyQuaternion = setFromEuler(x, y, z) ]

\* Maze.setRotation(x, y, z)
setRotation(m, x, y, z) ==
    IF ~m.loaded THEN m
    ELSE [ m EXCEPT !.meshRotation = << x, y, z >>,
                    !.bodyPosition = m.meshPosition,
                    !.bodyQuaternion = setFromEuler(x, y, z) ]

NoGround == [ present |-> FALSE, key |-> << "ground", 0, 0 >>,
              position |-> ZeroVec, quaternion |-> IdentityQuat ]

\* LevelManager as constructed
EmptyLevelManager ==
    [ currentLevel |-> 0, maze |-> NullMaze, balls |-> << >>, zones |-> << >>,
      walls |-> << >>, ground |-> NoGround,
      zoneOriginalPositions |-> << >>, wallOriginalQuaternions |-> << >> ]

\* LevelManager.createGround; c = [lm, world, scene]
createGround(c, n) ==
    LET g == [ present |-> TRUE, key |-> << "ground", n, 0 >>,
               position |-> ZeroVec, quaternion |-> setFromEuler(-90, 0, 0) ]
    IN [ c EXCEPT !.lm.ground = g, !.world = @ \cup { g.key } ]

\* the wallConfigs table of LevelManager.createWalls: Norte, Sur, Este, Oeste
wallConfigs(bounds) ==
    << [ position |-> << 0, 0, -bounds.wallDistance >>, rotation |-> << 0, 0, 0 >> ],
       [ position |-> << 0, 0, bounds.wallDistance >>,  rotation |-> << 0, 180, 0 >> ],
       [ position |-> << bounds.wallDistance, 0, 0 >>,  rotation |-> << 0, -90, 0 >> ],
       [ position |-> << -bounds.wallDistance, 0, 0 >>, rotation |-> << 0, 90, 0 >> ] >>

\* LevelManager.createWalls
createWalls(c, n, bounds) ==
    LET cfg == wallConfigs(bounds)
        new == [ k \in 1..4 |->
                   [ key |-> << "wall", n, k >>,
                     position |-> cfg[k].position,
                     quaternion |-> setFromEuler(cfg[k].rotation[1], cfg[k].rotation[2],
                                                 cfg[k].rotation[3]) ] ]
    IN [ c EXCEPT !.lm.walls = @ \o new,
                  !.lm.wallOriginalQuaternions = @ \o [ k \in 1..4 |-> new[k].quaternion ],
                  !.world = @ \cup { new[k].key : k \in 1..4 } ]

\* LevelManager.createBalls
createBalls(c, n, ballsConfig) ==
    LET new == [ k \in 1..Len(ballsConfig) |->
                   [ key |-> << "ball", n, k >>,
                     meshPosition |-> ballsConfig[k].position,
                     meshQuaternion |-> IdentityQuat,
                     bodyPosition |-> ballsConfig[k].position,
                     bodyQuaternion |-> IdentityQuat,
                     velocity |-> ZeroVec,
                     angularVelocity |-> ZeroVec,
                     radius |-> ballsConfig[k].radius ] ]
    IN [ c EXCEPT !.lm.balls = @ \o new,
                  !.world = @ \cup { new[k].key : k \in 1..Len(ballsConfig) },
                  !.scene = @ \cup { new[k].key : k \in 1..Len(ballsConfig) } ]

\* LevelManager.createZones
createZones(c, n, zonesConfig) ==
    LET new == [ k \in 1..Len(zonesConfig) |->
                   [ key |-> << "zone", n, k >>,
                     meshPosition |-> zonesConfig[k].position,
                     bodyPosition |-> zonesConfig[k].position,
                     meshQuaternion |-> IdentityQuat,
                     bodyQuaternion |-> IdentityQuat,
                     halfExtents |-> << zonesConfig[k].size.width \div 2,
                                        zonesConfig[k].size.height \div 2,
                                        zonesConfig[k].size.depth \div 2 >>,
                     isGreen |-> FALSE,
                     color |-> "red" ] ]
    IN [ c EXCEPT !.lm.zones = @ \o new,
                  !.lm.zoneOriginalPositions =
                      @ \o [ k \in 1..Len(zonesConfig) |-> zonesConfig[k].position ],
                  !.world = @ \cup { new[k].key : k \in 1..Len(zonesConfig) },
                  !.scene = @ \cup { new[k].key : k \in 1..Len(zonesConfig) } ]

Keys(seq) == { seq[k].key : k \in 1..Len(seq) }

\* LevelManager.unloadLevel
unloadLevel(c) ==
    LET l == c.lm
        mazeKey == { << "maze", l.maze.id, 0 >> }
    IN [ lm |-> EmptyLevelManager,
         scene |-> ((c.scene \ Keys(l.balls)) \ Keys(l.zones))
                     \ (IF l.maze.id # 0 /\ l.maze.mesh THEN mazeKey ELSE {}),
         world |-> ((((c.world \ Keys(l.balls)) \ Keys(l.zones)) \ Keys(l.walls))
                     \ (IF l.ground.present THEN { l.ground.key } ELSE {}))
                     \ (IF l.maze.id # 0 /\ l.maze.body THEN mazeKey ELSE {}) ]

----------------------------------------------------------------------------
(* MazeController *)

\* the browser window, in CSS pixels
Viewport == [ innerWidth |-> 800, innerHeight |-> 600 ]

\* Pointer positions of mousemove events, << clientX, clientY >>: the centre of the
\* window, its top right corner and, with a button held down (the browser keeps
\* delivering mousemove to the window during a drag), a point half a window to
\* the left of and below the window.
MouseEvents == { << 400, 300 >>, << 800, 0 >>, << -400, 900 >> }

\* the mousemove listener of MazeController.setupMouseControl
mouseXOf(clientX) == RoundDiv(clientX * 2 * Scale, Viewport.innerWidth) - Scale
mouseYOf(clientY) == Scale - RoundDiv(clientY * 2 * Scale, Viewport.innerHeight)

\* tiltX / tiltZ of MazeController.update, in degrees
tiltXOf(my) == RoundDiv((-my) * MaxTiltDeg, Scale)
tiltZOf(mx) == RoundDiv((-mx) * MaxTiltDeg, Scale)

\* MazeController.syncGround
syncGround(l) ==
    IF ~l.ground.present \/ ~l.maze.mesh THEN l
    ELSE [ l EXCEPT !.ground.position =
                        << 0, LEVELS_CONFIG[l.currentLevel].bounds.groundOffsetY, 0 >>,
                    !.ground.quaternion =
                        mult(l.maze.bodyQuaternion, setFromEuler(-90, 0, 0)) ]

\* wallOriginalPositions of MazeController.syncWalls, groundOffsetY already added
wallOriginalPositions(bounds) ==
    << << 0, bounds.groundOffsetY, -bounds.wallDistance >>,
       << 0, bounds.groundOffsetY, bounds.wallDistance >>,
       << bounds.wallDistance, bounds.groundOffsetY, 0 >>,
       << -bounds.wallDistance, bounds.groundOffsetY, 0 >> >>

\* Mutation of syncWalls: the walls follow the maze root (its position is added)
syncWallsFollowingMaze(l) ==
    IF Len(l.walls) = 0 \/ ~l.maze.mesh THEN [ lm |-> l, threw |-> FALSE ]
    ELSE LET orig == wallOriginalPositions(LEVELS_CONFIG[l.currentLevel].bounds)
             upd == [ k \in 1..Len(l.walls) |->
                        IF k <= 4
                        THEN LET r == applyQuaternion(orig[k], l.maze.bodyQuaternion)
                             IN [ l.walls[k] EXCEPT
                                    !.position = [ i \in 1..3 |-> r[i] + l.maze.meshPosition[i] ],
                                    !.quaternion = mult(mazeMeshQuaternion(l.maze),
                                                        l.wallOriginalQuaternions[k]) ]
                        ELSE l.walls[k] ]
         IN [ lm |-> [ l EXCEPT !.walls = upd ], threw |-> Len(l.walls) > 4 ]

\* MazeController.syncWalls.  The table of original positions has four rows:
\* with more than four walls in the container the fifth iteration reads a
\* property of undefined and throws, after the first four walls were updated.
syncWalls(l) ==
    IF Len(l.walls) = 0 \/ ~l.maze.mesh THEN [ lm |-> l, threw |-> FALSE ]
    ELSE LET orig == wallOriginalPositions(LEVELS_CONFIG[l.currentLevel].bounds)
             upd == [ k \in 1..Len(l.walls) |->
                        IF k <= 4
                        THEN [ l.walls[k] EXCEPT
                                 !.position = applyQuaternion(orig[k], l.maze.bodyQuaternion),
                                 !.quaternion = mult(mazeMeshQuaternion(l.maze),
                                                     l.wallOriginalQuaternions[k]) ]
                        ELSE l.walls[k] ]
         IN [ lm |-> [ l EXCEPT !.walls = upd ], threw |-> Len(l.walls) > 4 ]

\* MazeController.syncZones
syncZones(l) ==
    IF Len(l.zones) = 0 \/ ~l.maze.mesh THEN l
    ELSE [ l EXCEPT !.zones =
             [ k \in 1..Len(l.zones) |->
                 LET p == applyQuaternion(l.zoneOriginalPositions[k], l.maze.bodyQuaternion)
                 IN [ l.zones[k] EXCEPT !.meshPosition = p,
                                        !.bodyPosition = p,
                                        !.meshQuaternion = mazeMeshQuaternion(l.maze),
                                        !.bodyQuaternion = mazeMeshQuaternion(l.maze) ] ] ]

\* MazeController.update(levelManager) with the controller's mouse position (mx, my):
\* the container afterwards, the calls made, and whether an exception escaped
controllerUpdate(l, mx, my) ==
    IF l.maze.id = 0 \/ l.currentLevel = 0
    THEN [ lm |-> l, log |-> << >>, threw |-> FALSE ]
    ELSE LET l1 == [ l EXCEPT !.maze = setRotation(l.maze, tiltXOf(my), 0, tiltZOf(mx)) ]
             l2 == syncGround(l1)
             w  == syncWalls(l2)
         IN IF w.threw
            THEN [ lm |-> w.lm, threw |-> TRUE,
                   log |-> << "readTilt", "setRotation", "syncGround", "syncWalls" >> ]
            ELSE [ lm |-> syncZones(w.lm), threw |-> FALSE,
                   log |-> << "readTilt", "setRotation", "syncGround", "syncWalls",
                              "syncZones" >> ]

----------------------------------------------------------------------------
(* Game *)

\* Game.syncBalls
syncBalls(l) ==
    [ l EXCEPT !.balls = [ k \in 1..Len(l.balls) |->
                             [ l.balls[k] EXCEPT !.meshPosition = l.balls[k].bodyPosition,
                                                 !.meshQuaternion = l.balls[k].bodyQuaternion ] ] ]

\* Mutation of checkAABBCollision: the Y axis is not tested
checkAABBCollisionNoY(zone, ball) ==
    /\ ball.bodyPosition[1] + ball.radius >= zone.bodyPosition[1] - zone.halfExtents[1]
    /\ ball.bodyPosition[1] - ball.radius <= zone.bodyPosition[1] + zone.halfExtents[1]
    /\ ball.bodyPosition[3] + ball.radius >= zone.bodyPosition[3] - zone.halfExtents[3]
    /\ ball.bodyPosition[3] - ball.radius <= zone.bodyPosition[3] + zone.halfExtents[3]

\* Game.checkAABBCollision(zone, ball)
checkAABBCollision(zone, ball) ==
    LET zoneMin == [ i \in 1..3 |-> zone.bodyPosition[i] - zone.halfExtents[i] ]
        zoneMax == [ i \in 1..3 |-> zone.bodyPosition[i] + zone.halfExtents[i] ]
        sphereMin == [ i \in 1..3 |-> ball.bodyPosition[i] - ball.radius ]
        sphereMax == [ i \in 1..3 |-> ball.bodyPosition[i] + ball.radius ]
        overlapX == sphereMax[1] >= zoneMin[1] /\ sphereMin[1] <= zoneMax[1]
        overlapY == sphereMax[2] >= zoneMin[2] /\ sphereMin[2] <= zoneMax[2]
        overlapZ == sphereMax[3] >= zoneMin[3] /\ sphereMin[3] <= zoneMax[3]
    IN overlapX /\ overlapY /\ overlapZ

\* Mutation of checkZone: a zone that is left stays green
checkZoneNoReset(zone, balls) ==
    LET hasCollision == \E b \in 1..Len(balls) : checkAABBCollision(zone, balls[b])
    IN IF hasCollision /\ ~zone.isGreen THEN [ zone EXCEPT !.isGreen = TRUE, !.color = "green" ]
       ELSE zone

\* the forEach body of Game.checkZones for one zone
checkZone(zone, balls) ==
    LET hasCollision == \E b \in 1..Len(balls) : checkAABBCollision(zone, balls[b])
    IN IF hasCollision /\ ~zone.isGreen THEN [ zone EXCEPT !.isGreen = TRUE, !.color = "green" ]
       ELSE IF ~hasCollision /\ zone.isGreen
            THEN [ zone EXCEPT !.isGreen = FALSE, !.color = "red" ]
            ELSE zone

\* Mutation of allGreenOf: the test greenCount > 0 is missing
allGreenOfAnyCount(greenCount, totalZones) == greenCount = totalZones

\* the allGreen result of Game.checkZones
allGreenOf(greenCount, totalZones) == greenCount = totalZones /\ greenCount > 0

\* Game.checkZones
checkZones(l) ==
    LET zs == [ k \in 1..Len(l.zones) |-> checkZone(l.zones[k], l.balls) ]
        greenCount == Cardinality({ k \in 1..Len(zs) : zs[k].isGreen })
    IN [ lm |-> [ l EXCEPT !.zones = zs ],
         greenZones |-> greenCount,
         totalZones |-> Len(zs),
         allGreen |-> allGreenOf(greenCount, Len(zs)) ]

\* Game.update() up to the victory test, entered with isPlaying true
gameUpdate(l, mx, my) ==
    LET c == controllerUpdate(l, mx, my)
    IN IF c.threw
       THEN [ lm |-> c.lm, log |-> c.log, allGreen |-> FALSE ]
       ELSE LET z == checkZones(syncBalls(c.lm))
            IN [ lm |-> z.lm, log |-> c.log \o << "syncBalls", "checkZones" >>,
                 allGreen |-> z.allGreen ]

\* Game.pause
pause == isPlaying' = FALSE

\* Mutation of resume: hasWon is not consulted
resumeUnguarded == isPlaying' = TRUE

\* Game.resume
resume == isPlaying' = IF ~hasWon THEN TRUE ELSE isPlaying

\* Mutation of onWin: the continuation is built without looking for the next level
onWinAlwaysContinuation ==
    /\ hasWon' = TRUE
    /\ isPlaying' = FALSE
    /\ winOverlayVisible' = TRUE
    /\ nextLevelCallback' = currentLevelId + 1

\* Game.onWin with MenuManager.showWinOverlay
onWin ==
    /\ hasWon' = TRUE
    /\ isPlaying' = FALSE
    /\ winOverlayVisible' = TRUE
    /\ nextLevelCallback' = IF currentLevelId + 1 \in Levels THEN currentLevelId + 1 ELSE 0

\* Game.startLevel(levelId, LEVELS_CONFIG[levelId]) up to the point where it waits
\* for the GLTF loader: LevelManager.loadLevel has unloaded the previous level, set
\* currentLevel and constructed the Maze whose load is now in flight
startLevel(levelId) ==
    LET c == unloadLevel([ lm |-> lm, world |-> world, scene |-> scene ])
    IN /\ nextId <= MaxLoads
       /\ currentLevelId' = levelId
       /\ isPlaying' = FALSE
       /\ hasWon' = FALSE
       /\ lm' = [ c.lm EXCEPT !.currentLevel = levelId, !.maze = newMaze(nextId) ]
       /\ world' = c.world
       /\ scene' = c.scene
       /\ pending' = pending \cup { [ id |-> nextId, level |-> levelId ] }
       /\ nextId' = nextId + 1

----------------------------------------------------------------------------
(* The physics engine.  world.step moves every dynamic body, i.e. every    *)
(* ball; what it does to a ball is the engine's business, so each ball     *)
(* ends up in any of a few sample states of the current level.  Level 1:   *)
(* at rest at the centre of its zone; or, having gone through the floor    *)
(* (the README lists this as a known problem), in free fall straight below *)
(* the zone, 45 units below its spawn height, at the 30 units/s that       *)
(* gravity 10 gives it there: its box overlaps the zone's box on X and Z   *)
(* and misses it on Y.  Level 2: at rest at the centre of either zone.  (A *)
(* ball is created at rest at its spawn point, which is outside every      *)
(* zone.)  Velocities are in units/s, angular velocities in rad/s, both    *)
(* fixed-point.                                                            *)

BallStates ==
    << { [ position |-> << 11000, 3500, 11000 >>, velocity |-> ZeroVec,
           angularVelocity |-> ZeroVec, quaternion |-> IdentityQuat ],
         [ position |-> << 11000, -25000, 11000 >>, velocity |-> Vec(0, -30, 0),
           angularVelocity |-> Vec(40, 0, 0), quaternion |-> setFromEuler(90, 0, 0) ] },
       { [ position |-> << -5000, 2000, -13000 >>, velocity |-> ZeroVec,
           angularVelocity |-> ZeroVec, quaternion |-> IdentityQuat ],
         [ position |-> << -17000, 2000, -13500 >>, velocity |-> ZeroVec,
           angularVelocity |-> ZeroVec, quaternion |-> IdentityQuat ] } >>

\* how world.step can leave a ball while the given level is current
StepOutcomes(level) == IF level \in Levels THEN BallStates[level] ELSE {}

\* world.step(...): the container with the ball bodies in their new states
worldStep(l, newStates) ==
    [ l EXCEPT !.balls = [ k \in 1..Len(l.balls) |->
                             [ l.balls[k] EXCEPT
                                 !.bodyPosition = newStates[k].position,
                                 !.bodyQuaternion = newStates[k].quaternion,
                                 !.velocity = newStates[k].velocity,
                                 !.angularVelocity = newStates[k].angularVelocity ] ] ]

----------------------------------------------------------------------------
(* Joystick (virtual stick with pointer and W/A/S/D control).  Pixel        *)
(* coordinates are integers; the reported value is fixed-point like every   *)
(* other number of the model.                                               *)

RECURSIVE SqrtIn(_, _, _)
\* the largest r in lo..hi with r * r <= n
SqrtIn(n, lo, hi) ==
    IF lo = hi THEN lo
    ELSE LET mid == (lo + hi + 1) \div 2
         IN IF mid <= n \div mid THEN SqrtIn(n, mid, hi) ELSE SqrtIn(n, lo, mid - 1)

\* Math.sqrt, rounded down
Sqrt(n) == SqrtIn(n, 0, n)

Min(a, b) == IF a <= b THEN a ELSE b
Max(a, b) == IF a >= b THEN a ELSE b

\* maxRadius of the Joystick constructor, in pixels
MaxRadius == 52

\* centre of the joystick base as _updateCenter measures it, in client pixels
JoyCenter == [ x |-> 100, y |-> 500 ]

\* pointerIds the browser hands out
PointerIds == { 1, 2 }

\* Client positions of pointer events: the centre of the base; 50 px from the
\* centre (inside the circle); 100 px from the centre (outside the circle); 200 px
\* to the left of the centre.  pointerdown is listened for on the base only, so
\* it arrives with a position inside the base.
PointerMoves == { << 100, 500 >>, << 130, 460 >>, << 160, 580 >>, << -100, 500 >> }
PointerDowns == { << 100, 500 >>, << 130, 460 >> }

WASD == { "w", "a", "s", "d" }

\* the Joystick as constructed (pointerId 0 stands for null)
NewJoystick == [ pointerId |-> 0, keys |-> {}, value |-> << 0, 0 >> ]

\* Joystick._applyPointer: the value emitted
applyPointer(clientX, clientY) ==
    LET dx == clientX - JoyCenter.x
        dy == clientY - JoyCenter.y
        dist == Sqrt(dx * dx + dy * dy)
        r == Min(dist, MaxRadius)
    IN IF dist = 0 THEN << 0, 0 >>
       ELSE << RoundDiv(dx * r * Scale, dist * MaxRadius),
               -RoundDiv(dy * r * Scale, dist * MaxRadius) >>

\* Joystick._applyKeyboard: the value emitted for the keys held
applyKeyboard(keys) ==
    LET x == (IF "d" \in keys THEN 1 ELSE 0) - (IF "a" \in keys THEN 1 ELSE 0)
        y == (IF "w" \in keys THEN 1 ELSE 0) - (IF "s" \in keys THEN 1 ELSE 0)
        len == Sqrt((x * x + y * y) * Scale * Scale)
    IN IF x = 0 /\ y = 0 THEN << 0, 0 >>
       ELSE << RoundDiv(x * Scale * Scale, len), RoundDiv(y * Scale * Scale, len) >>

\* Joystick._onPointerDown
onPointerDown(j, pointerId, clientX, clientY) ==
    IF j.pointerId # 0 THEN j
    ELSE [ j EXCEPT !.pointerId = pointerId, !.value = applyPointer(clientX, clientY) ]

\* Joystick._onPointerMove
onPointerMove(j, pointerId, clientX, clientY) ==
    IF j.pointerId = 0 \/ pointerId # j.pointerId THEN j
    ELSE [ j EXCEPT !.value = applyPointer(clientX, clientY) ]

\* Joystick._onPointerUp (pointerup and pointercancel)
onPointerUp(j, pointerId) ==
    IF j.pointerId = 0 \/ pointerId # j.pointerId THEN j
    ELSE [ j EXCEPT !.pointerId = 0, !.value = << 0, 0 >> ]

\* Mutation of onKeyDown: the keys are applied while a pointer is captured too
onKeyDownOverPointer(j, k) ==
    [ j EXCEPT !.keys = j.keys \cup { k }, !.value = applyKeyboard(j.keys \cup { k }) ]

\* Joystick._onKeyDown for a W/A/S/D key, not a repeat
onKeyDown(j, k) ==
    LET held == j.keys \cup { k }
    IN IF j.pointerId # 0 THEN [ j EXCEPT !.keys = held ]
       ELSE [ j EXCEPT !.keys = held, !.value = applyKeyboard(held) ]

\* Joystick._onKeyUp for a W/A/S/D key
onKeyUp(j, k) ==
    LET held == j.keys \ { k }
    IN IF j.pointerId # 0 THEN [ j EXCEPT !.keys = held ]
       ELSE [ j EXCEPT !.keys = held, !.value = applyKeyboard(held) ]

----------------------------------------------------------------------------
(* DeviceOrientationController; beta and gamma in whole degrees *)

\* sensitivity (1.5) and deadzone (3 degrees) of the constructor
Sensitivity == 1500
Deadzone == 3

\* deviceorientation readings << beta, gamma >>: flat, inside the dead zone,
\* tilted, and turned over
OrientationEvents == { << 0, 0 >>, << 2, -2 >>, << 20, -90 >>, << 180, 45 >> }

\* the controller as constructed; checkSupport has set supported
NewDeviceOrientationController(supported) ==
    [ enabled |-> FALSE, supported |-> supported, permissionGranted |-> FALSE,
      beta |-> 0, gamma |-> 0, calibrationBeta |-> 0, calibrationGamma |-> 0,
      tiltX |-> 0, tiltZ |-> 0 ]

\* DeviceOrientationController.clamp
clamp(value, min, max) == Min(Max(value, min), max)

\* one axis of handleOrientation: relative angle, dead zone, normalisation
normalizedTilt(angle, calibration) ==
    LET relative == angle - calibration
        r == IF Abs(relative) < Deadzone THEN 0 ELSE relative
    IN clamp(RoundDiv(r * Sensitivity, 45), -Scale, Scale)

\* the deviceorientation listener installed by startListening
handleOrientation(g, beta, gamma) ==
    [ g EXCEPT !.beta = beta, !.gamma = gamma,
               !.tiltX = normalizedTilt(beta, g.calibrationBeta),
               !.tiltZ = normalizedTilt(gamma, g.calibrationGamma) ]

\* DeviceOrientationController.requestPermission, the user's answer being granted
requestPermission(g, granted) ==
    IF ~g.supported THEN g ELSE [ g EXCEPT !.permissionGranted = granted ]

\* DeviceOrientationController.enable
enable(g) ==
    IF ~g.supported \/ ~g.permissionGranted THEN g ELSE [ g EXCEPT !.enabled = TRUE ]

\* DeviceOrientationController.disable
disable(g) ==
    IF g.enabled THEN [ g EXCEPT !.enabled = FALSE, !.tiltX = 0, !.tiltZ = 0 ] ELSE g

\* DeviceOrientationController.calibrate
calibrate(g) == [ g EXCEPT !.calibrationBeta = g.beta, !.calibrationGamma = g.gamma ]

----------------------------------------------------------------------------
(* Mesh to collision body (physics.js).  A model is the sequence of its     *)
(* nodes in the order Object3D.traverse visits them.  A node is a group     *)
(* (not a mesh), a mesh without geometry, a mesh whose geometry converts,   *)
(* or a mesh whose conversion throws (a geometry without a position         *)
(* attribute makes createTrimeshFromGeometry read a property of undefined). *)

NodeKinds == { "group", "meshNoGeometry", "meshOk", "meshThrows" }

\* nodes of the largest model
MaxNodes == 3

\* the models handed to createCompoundBodyFromModel
Models == UNION { [ 1..n -> NodeKinds ] : n \in 0..MaxNodes }

\* no call of createCompoundBodyFromModel has been made
NoConversion == [ model |-> << >>, next |-> 0, shapes |-> << >>, shapeCount |-> 0,
                  warnings |-> 0, result |-> "none" ]

\* createCompoundBodyFromModel(model, world) entered: new CANNON.Body, shapeCount = 0
newConversion(model) == [ NoConversion EXCEPT !.model = model, !.next = 1 ]

\* Mutation of traverseChild: no try/catch, the exception leaves the function
traverseChildNoCatch(c) ==
    LET child == c.model[c.next]
    IN IF child = "meshThrows"
       THEN [ c EXCEPT !.result = "exception" ]
       ELSE IF child = "meshOk"
            THEN [ c EXCEPT !.shapes = Append(@, c.next), !.shapeCount = @ + 1,
                            !.next = @ + 1 ]
            ELSE [ c EXCEPT !.next = @ + 1 ]

\* the traverse callback of createCompoundBodyFromModel on the next node
traverseChild(c) ==
    LET child == c.model[c.next]
    IN IF child \in { "meshOk", "meshThrows" }
       THEN IF child = "meshOk"
            THEN [ c EXCEPT !.shapes = Append(@, c.next), !.shapeCount = @ + 1,
                            !.next = @ + 1 ]
            ELSE [ c EXCEPT !.warnings = @ + 1, !.next = @ + 1 ]
       ELSE [ c EXCEPT !.next = @ + 1 ]

----------------------------------------------------------------------------
(* ProgressManager (utils/ProgressManager.js) and the localStorage entry    *)
(* 'mazeGameProgress'.                                                      *)
(*                                                                         *)
(* A JSON value is a record: type is "null", "number" or "object"; for an  *)
(* object, has is the set of the properties it carries, and unlockedLevels *)
(* and completedLevels are its arrays (empty when the property is absent); *)
(* lastPlayedLevel 0 stands for null.  "undefined" is the value of a field *)
(* that was never assigned.  The timestamps createdAt / updatedAt are left *)
(* out.  A string is a record too: kind "absent" is getItem's null,        *)
(* "empty" the empty string, "garbage" a text that is not JSON, and "json" *)
(* the text of the JSON value in value.                                    *)

\* levels of the game as the progress manager sees them (totalLevels)
TotalLevels == 3

JsonValue(type, has, unl, comp, last) ==
    [ type |-> type, has |-> has, unlockedLevels |-> unl, completedLevels |-> comp,
      lastPlayedLevel |-> last ]

Undefined == JsonValue("undefined", {}, << >>, << >>, 0)

StorageString(kind, value) == [ kind |-> kind, value |-> value ]

\* JSON.parse: a value for JSON text, a SyntaxError for anything else
JSONparse(s) == [ threw |-> s.kind # "json", value |-> s.value ]

JSONstringify(v) == StorageString("json", v)

\* Array.prototype.includes
includes(arr, x) == \E i \in 1..Len(arr) : arr[i] = x

\* arr.push(x); arr.sort((a, b) => a - b)
pushAndSort(arr, x) == SortSeq(Append(arr, x), LAMBDA a, b : a < b)

defaultProgress == JsonValue("object", { "unlockedLevels", "completedLevels" }, << 1 >>, << >>, 0)

\* saveProgress: writes the text of the progress; a progress that is not an
\* object makes the assignment of updatedAt throw, which is caught, and
\* nothing is written
saveProgress(storage, progress) ==
    IF progress.type = "object" THEN JSONstringify(progress) ELSE storage

\* loadProgress: the parsed entry when there is one and it parses, else the
\* default progress, which is saved
loadProgress(storage) ==
    IF storage.kind \notin { "absent", "empty" } /\ ~JSONparse(storage).threw
    THEN [ progress |-> JSONparse(storage).value, storage |-> storage ]
    ELSE [ progress |-> defaultProgress, storage |-> saveProgress(storage, defaultProgress) ]

\* the page before its ProgressManager is constructed
newPage(storage) ==
    [ page |-> "loading", storage |-> storage, progress |-> Undefined,
      levelsUnlocked |-> { 1 }, threw |-> FALSE ]

NoProgressManager == newPage(StorageString("absent", Undefined))

\* new ProgressManager()
constructProgressManager(p) ==
    LET loaded == loadProgress(p.storage)
    IN [ p EXCEPT !.page = "ready", !.progress = loaded.progress, !.storage = loaded.storage ]

\* progress.unlockedLevels.includes throws a TypeError when progress is null
\* or has no unlockedLevels
isLevelUnlocked(progress, levelId) ==
    IF "unlockedLevels" \in progress.has
    THEN [ threw |-> FALSE, value |-> includes(progress.unlockedLevels, levelId) ]
    ELSE [ threw |-> TRUE, value |-> FALSE ]

unlockLevel(p, levelId) ==
    IF "unlockedLevels" \notin p.progress.has
    THEN [ p EXCEPT !.threw = TRUE ]
    ELSE IF ~includes(p.progress.unlockedLevels, levelId)
         THEN LET q == [ p.progress EXCEPT !.unlockedLevels = pushAndSort(@, levelId) ]
              IN [ p EXCEPT !.progress = q, !.storage = saveProgress(@, q), !.threw = FALSE ]
         ELSE [ p EXCEPT !.threw = FALSE ]

completeLevel(p, levelId, totalLevels) ==
    IF "completedLevels" \notin p.progress.has
    THEN [ p EXCEPT !.threw = TRUE ]
    ELSE LET marked == IF ~includes(p.progress.completedLevels, levelId)
                       THEN [ p EXCEPT !.progress.completedLevels = pushAndSort(@, levelId) ]
                       ELSE p
             next == IF levelId + 1 <= totalLevels THEN unlockLevel(marked, levelId + 1)
                     ELSE [ marked EXCEPT !.threw = FALSE ]
         IN IF next.threw
            THEN next
            ELSE LET q == [ next.progress EXCEPT !.lastPlayedLevel = levelId,
                                                 !.has = @ \cup { "lastPlayedLevel" } ]
                 IN [ next EXCEPT !.progress = q, !.storage = saveProgress(@, q) ]

\* sets unlocked of every level of the configuration; the first lookup throws
\* when the progress has no unlockedLevels and nothing has been set then
applyToLevelsConfig(p) ==
    IF isLevelUnlocked(p.progress, 1).threw
    THEN [ p EXCEPT !.threw = TRUE ]
    ELSE [ p EXCEPT !.levelsUnlocked = { id \in 1..TotalLevels : isLevelUnlocked(p.progress, id).value },
                    !.threw = FALSE ]

\* resetProgress with the confirmation given: the entry is removed, the
\* default progress loaded (and saved), and the page reloads
resetProgress(p) ==
    newPage(loadProgress(StorageString("absent", Undefined)).storage)

\* importProgress: an object with truthy unlockedLevels and completedLevels
\* replaces the progress, is saved, and the page reloads; anything else ends
\* in the catch block (an alert)
importProgress(p, jsonString) ==
    LET parsed == JSONparse(jsonString)
        imported == parsed.value
    IN IF /\ ~parsed.threw
          /\ imported.type = "object"
          /\ { "unlockedLevels", "completedLevels" } \subseteq imported.has
       THEN newPage(saveProgress(p.storage, imported))
       ELSE [ p EXCEPT !.threw = FALSE ]

\* the ascending array of the elements of S
RECURSIVE SortedArray(_)
SortedArray(S) ==
    IF S = {} THEN << >>
    ELSE LET m == CHOOSE x \in S : \A y \in S : x <= y
         IN << m >> \o SortedArray(S \ { m })

\* JSON values a text can hold: null, a number, an object without the two
\* arrays, and progress records with any levels unlocked and completed
JsonValues ==
    { JsonValue("null", {}, << >>, << >>, 0),
      JsonValue("number", {}, << >>, << >>, 0),
      JsonValue("object", {}, << >>, << >>, 0) }
    \cup { JsonValue("object", { "unlockedLevels", "completedLevels" },
                     SortedArray(U), SortedArray(C), 0) :
           U \in SUBSET (1..TotalLevels), C \in SUBSET (1..TotalLevels) }

\* strings: the text of each JSON value, the empty string and a text that is not JSON
Strings ==
    { JSONstringify(v) : v \in JsonValues }
    \cup { StorageString("empty", Undefined), StorageString("garbage", Undefined) }

\* what localStorage.getItem('mazeGameProgress') can return when the page loads
StoredValues == Strings \cup { StorageString("absent", Undefined) }

----------------------------------------------------------------------------
(* RankingManager (core/RankingManager.js) and the players table            *)
(*                                                                         *)
(* A completion time is kept in thousandths of a second, as the lengths    *)
(* are, and TIME_PENALTY 0.8 as the fraction 8 / 10.  A players row is     *)
(* [id, name]; its id is its position in the table.                      *)

POINTS_CONFIG == [ BASE |-> 1000, TIME_PENALTY_NUM |-> 8, TIME_PENALTY_DEN |-> 10, MIN_POINTS |-> 100 ]

\* the time penalty rounded up instead of down
calculatePointsCeil(time) ==
    Max(POINTS_CONFIG.BASE
          - ((time * POINTS_CONFIG.TIME_PENALTY_NUM + POINTS_CONFIG.TIME_PENALTY_DEN * Scale - 1)
                \div (POINTS_CONFIG.TIME_PENALTY_DEN * Scale)),
        POINTS_CONFIG.MIN_POINTS)

\* Math.max(BASE - Math.floor(timeInSeconds * TIME_PENALTY), MIN_POINTS)
calculatePoints(time) ==
    Max(POINTS_CONFIG.BASE
          - ((time * POINTS_CONFIG.TIME_PENALTY_NUM) \div (POINTS_CONFIG.TIME_PENALTY_DEN * Scale)),
        POINTS_CONFIG.MIN_POINTS)

\* null where a players row is expected
NoPlayer == [ id |-> 0, name |-> "" ]

\* new RankingManager(), no call made, empty tables
NoRankingManager ==
    [ currentPlayer |-> NoPlayer, players |-> << >>, calls |-> << >>, completions |-> << >> ]

\* saveLevelCompletion: the points are computed from the time and the row is
\* inserted; a failed insert leaves the table as it is and returns null
saveLevelCompletion(r, playerId, levelId, time, error) ==
    IF error THEN r
    ELSE [ r EXCEPT !.completions =
             Append(@, [ player_id |-> playerId, level_id |-> levelId,
                         completion_time |-> time, points |-> calculatePoints(time) ]) ]

\* getOrCreatePlayer up to its first await: the select is sent
getOrCreatePlayer(r, playerName) ==
    [ r EXCEPT !.calls = Append(@, [ name |-> playerName, pc |-> "select", result |-> NoPlayer ]) ]

\* rows of the players table with the name
playersNamed(r, playerName) ==
    { r.players[i] : i \in { j \in 1..Len(r.players) : r.players[j].name = playerName } }

\* the select answers: an error returns null; a row found becomes
\* currentPlayer and is returned (found = NoPlayer: no row came back); else the
\* insert is sent
afterSelect(r, i, error, found) ==
    IF error THEN [ r EXCEPT !.calls[i].pc = "done" ]
    ELSE IF found # NoPlayer
         THEN [ r EXCEPT !.currentPlayer = found, !.calls[i].pc = "done", !.calls[i].result = found ]
         ELSE [ r EXCEPT !.calls[i].pc = "insert" ]

\* the insert answers: an error returns null; else the new row is in the
\* table, becomes currentPlayer and is returned
afterInsert(r, i, error) ==
    IF error THEN [ r EXCEPT !.calls[i].pc = "done" ]
    ELSE LET newPlayer == [ id |-> Len(r.players) + 1, name |-> r.calls[i].name ]
         IN [ r EXCEPT !.players = Append(@, newPlayer), !.currentPlayer = newPlayer,
                       !.calls[i].pc = "done", !.calls[i].result = newPlayer ]

----------------------------------------------------------------------------
(* Initial state and events *)

\* the game as main.js constructs it
GameInit ==
    /\ isPlaying = FALSE
    /\ hasWon = FALSE
    /\ currentLevelId = 0
    /\ lm = EmptyLevelManager
    /\ world = {}
    /\ scene = {}
    /\ pending = {}
    /\ nextId = 1
    /\ mouseX = 0
    /\ mouseY = 0
    /\ menuVisible = TRUE
    /\ winOverlayVisible = FALSE
    /\ nextLevelCallback = 0
    /\ unlocked = { 1 }
    /\ frameLog = << >>

Init ==
    /\ GameInit
    /\ joy = NewJoystick
    /\ gyro = NewDeviceOrientationController(TRUE)
    /\ conv = NoConversion
    /\ pm = NoProgressManager
    /\ rk = NoRankingManager

\* animate(): one display frame
Frame ==
    \E newStates \in [ 1..Len(lm.balls) -> StepOutcomes(lm.currentLevel) ] :
        LET stepped == worldStep(lm, newStates)
            u == gameUpdate(stepped, mouseX, mouseY)
        IN IF isPlaying
           THEN /\ lm' = u.lm
                /\ IF u.allGreen /\ ~hasWon
                   THEN /\ onWin
                        /\ frameLog' = << "worldStep" >> \o u.log \o << "onWin" >>
                   ELSE /\ UNCHANGED << hasWon, isPlaying, winOverlayVisible,
                                        nextLevelCallback >>
                        /\ frameLog' = << "worldStep" >> \o u.log
                /\ UNCHANGED << currentLevelId, world, scene, pending, nextId, mouseX, mouseY,
                                menuVisible, unlocked, joy, gyro, conv, pm, rk >>
           ELSE /\ lm' = stepped
                /\ frameLog' = << "worldStep" >>
                /\ UNCHANGED << isPlaying, hasWon, currentLevelId, world, scene, pending,
                                nextId, mouseX, mouseY, menuVisible, winOverlayVisible,
                                nextLevelCallback, unlocked, joy, gyro, conv, pm, rk >>

\* a mousemove event on the window
MouseMove ==
    \E e \in MouseEvents :
        /\ mouseX' = mouseXOf(e[1])
        /\ mouseY' = mouseYOf(e[2])
        /\ UNCHANGED << isPlaying, hasWon, currentLevelId, lm, world, scene, pending, nextId,
                        menuVisible, winOverlayVisible, nextLevelCallback, unlocked, frameLog,
                        joy, gyro, conv, pm, rk >>

\* keydown Escape: _onEscapeKey
EscapeKey ==
    /\ IF menuVisible
       THEN menuVisible' = FALSE /\ resume
       ELSE menuVisible' = TRUE /\ pause
    /\ UNCHANGED << hasWon, currentLevelId, lm, world, scene, pending, nextId, mouseX, mouseY,
                    winOverlayVisible, nextLevelCallback, unlocked, frameLog, joy, gyro, conv, pm, rk >>

\* a call of Game.pause()
CallPause ==
    /\ pause
    /\ UNCHANGED << hasWon, currentLevelId, lm, world, scene, pending, nextId, mouseX, mouseY,
                    menuVisible, winOverlayVisible, nextLevelCallback, unlocked, frameLog,
                    joy, gyro, conv, pm, rk >>

\* a call of Game.resume()
CallResume ==
    /\ resume
    /\ UNCHANGED << hasWon, currentLevelId, lm, world, scene, pending, nextId, mouseX, mouseY,
                    menuVisible, winOverlayVisible, nextLevelCallback, unlocked, frameLog,
                    joy, gyro, conv, pm, rk >>

\* click on #pause-btn (in the HUD, which is shown while the menu is hidden)
PauseButtonClick ==
    /\ ~menuVisible
    /\ menuVisible' = TRUE
    /\ UNCHANGED << isPlaying, hasWon, currentLevelId, lm, world, scene, pending, nextId,
                    mouseX, mouseY, winOverlayVisible, nextLevelCallback, unlocked, frameLog,
                    joy, gyro, conv, pm, rk >>

\* click on an enabled level button of the menu: hideMenu, onLevelSelect, startLevel
\* (the player's name is already stored, so onLevelSelect starts the level directly)
LevelButtonClick ==
    \E levelId \in Levels :
        /\ menuVisible
        /\ levelId \in unlocked
        /\ menuVisible' = FALSE
        /\ startLevel(levelId)
        /\ UNCHANGED << mouseX, mouseY, winOverlayVisible, nextLevelCallback, unlocked,
                        frameLog, joy, gyro, conv, pm, rk >>

\* click on #next-level-btn of the win overlay: hideWinOverlay, nextLevelCallback()
NextLevelClick ==
    /\ winOverlayVisible
    /\ nextLevelCallback # 0
    /\ winOverlayVisible' = FALSE
    /\ unlocked' = unlocked \cup { nextLevelCallback }
    /\ startLevel(nextLevelCallback)
    /\ UNCHANGED << mouseX, mouseY, menuVisible, nextLevelCallback, frameLog, joy, gyro, conv, pm, rk >>

\* click on #menu-btn of the win overlay: hideWinOverlay, showMenu
MenuButtonClick ==
    /\ winOverlayVisible
    /\ winOverlayVisible' = FALSE
    /\ menuVisible' = TRUE
    /\ UNCHANGED << isPlaying, hasWon, currentLevelId, lm, world, scene, pending, nextId,
                    mouseX, mouseY, nextLevelCallback, unlocked, frameLog, joy, gyro, conv, pm, rk >>

\* The GLTF loader delivers the model of a pending Maze.load: the success callback
\* runs on that Maze object, the promise resolves, and LevelManager.loadMaze,
\* loadLevel and Game.startLevel continue.  loadMaze continues with
\* this.maze.body.material = ..., where this.maze is the container's current maze:
\* if that one has no body yet the assignment throws and the call chain rejects.
LoadResolve ==
    \E req \in pending :
        LET key == << "maze", req.id, 0 >>
            cfg == LEVELS_CONFIG[req.level]
            l1 == IF lm.maze.id = req.id
                  THEN [ lm EXCEPT !.maze = MazeOnLoad(lm.maze, cfg.maze) ]
                  ELSE lm
            c1 == [ lm |-> l1, world |-> world \cup { key }, scene |-> scene \cup { key } ]
            c2 == createZones(createBalls(createWalls(createGround(c1, req.id), req.id,
                                  cfg.bounds), req.id, cfg.balls), req.id, cfg.zones)
        IN /\ pending' = pending \ { req }
           /\ IF l1.maze.body
              THEN /\ lm' = c2.lm /\ world' = c2.world /\ scene' = c2.scene
                   /\ isPlaying' = TRUE
              ELSE /\ lm' = c1.lm /\ world' = c1.world /\ scene' = c1.scene
                   /\ UNCHANGED isPlaying
           /\ UNCHANGED << hasWon, currentLevelId, nextId, mouseX, mouseY, menuVisible,
                           winOverlayVisible, nextLevelCallback, unlocked, frameLog, joy, gyro, conv, pm, rk >>

\* The GLTF loader reports an error for a pending Maze.load: the promise rejects,
\* and with it loadMaze, loadLevel and startLevel
LoadFail ==
    \E req \in pending :
        /\ pending' = pending \ { req }
        /\ UNCHANGED << isPlaying, hasWon, currentLevelId, lm, world, scene, nextId, mouseX,
                        mouseY, menuVisible, winOverlayVisible, nextLevelCallback, unlocked,
                        frameLog, joy, gyro, conv, pm, rk >>

Next ==
    \/ Frame
    \/ MouseMove
    \/ EscapeKey
    \/ CallPause
    \/ CallResume
    \/ PauseButtonClick
    \/ LevelButtonClick
    \/ NextLevelClick
    \/ MenuButtonClick
    \/ LoadResolve
    \/ LoadFail

Spec == Init /\ [][Next]_vars

----------------------------------------------------------------------------
(* The input devices on their own: events of the mouse, the joystick and the *)
(* orientation sensor, with the game left as constructed                    *)

\* what no joystick or sensor event touches
GameUntouched ==
    UNCHANGED << isPlaying, hasWon, currentLevelId, lm, world, scene, pending, nextId,
                 mouseX, mouseY, menuVisible, winOverlayVisible, nextLevelCallback,
                 unlocked, frameLog, conv, pm, rk >>

\* pointerdown on the joystick base
PointerDown ==
    \E id \in PointerIds, e \in PointerDowns :
        /\ joy' = onPointerDown(joy, id, e[1], e[2])
        /\ GameUntouched /\ UNCHANGED gyro

\* pointermove on the window
PointerMove ==
    \E id \in PointerIds, e \in PointerMoves :
        /\ joy' = onPointerMove(joy, id, e[1], e[2])
        /\ GameUntouched /\ UNCHANGED gyro

\* pointerup or pointercancel on the window
PointerUp ==
    \E id \in PointerIds :
        /\ joy' = onPointerUp(joy, id)
        /\ GameUntouched /\ UNCHANGED gyro

\* keydown of W, A, S or D
KeyDown ==
    \E k \in WASD :
        /\ joy' = onKeyDown(joy, k)
        /\ GameUntouched /\ UNCHANGED gyro

\* keyup of W, A, S or D
KeyUp ==
    \E k \in WASD :
        /\ joy' = onKeyUp(joy, k)
        /\ GameUntouched /\ UNCHANGED gyro

\* a call of requestPermission; where the browser asks, the user grants or denies
RequestPermission ==
    \E granted \in BOOLEAN :
        /\ gyro' = requestPermission(gyro, granted)
        /\ GameUntouched /\ UNCHANGED joy

\* a call of enable()
Enable == gyro' = enable(gyro) /\ GameUntouched /\ UNCHANGED joy

\* a call of disable()
Disable == gyro' = disable(gyro) /\ GameUntouched /\ UNCHANGED joy

\* a call of calibrate()
Calibrate == gyro' = calibrate(gyro) /\ GameUntouched /\ UNCHANGED joy

\* a deviceorientation event; the listener is registered while enabled
DeviceOrientation ==
    \E e \in OrientationEvents :
        /\ gyro.enabled
        /\ gyro' = handleOrientation(gyro, e[1], e[2])
        /\ GameUntouched /\ UNCHANGED joy

InputInit ==
    /\ GameInit
    /\ joy = NewJoystick
    /\ gyro \in { NewDeviceOrientationController(s) : s \in BOOLEAN }
    /\ conv = NoConversion
    /\ pm = NoProgressManager
    /\ rk = NoRankingManager

InputNext ==
    \/ MouseMove
    \/ PointerDown
    \/ PointerMove
    \/ PointerUp
    \/ KeyDown
    \/ KeyUp
    \/ RequestPermission
    \/ Enable
    \/ Disable
    \/ Calibrate
    \/ DeviceOrientation

InputSpec == InputInit /\ [][InputNext]_vars

----------------------------------------------------------------------------
(* A Maze on its own: one Maze object, loaded once with any of a few options  *)
(* and then rotated through its public API, with the rest of the game left as *)
(* constructed                                                                *)

\* options of Maze.load: position and rotation (degrees) of the maze root
MazeOptions ==
    [ position : { Vec(0, 0, 0), Vec(0, 0, 3), Vec(5, 1, -2) },
      rotation : { << 0, 0, 0 >>, << 0, 90, 0 >>, << 15, 0, 0 >>, << 0, 0, -15 >> } ]

\* angles passed to Maze.setRotation, in degrees
MazeAngles == { -30, -15, 0, 15, 30 }

\* new Maze(scene, world) in an otherwise untouched game
MazeInit ==
    /\ isPlaying = FALSE
    /\ hasWon = FALSE
    /\ currentLevelId = 0
    /\ lm = [ EmptyLevelManager EXCEPT !.maze = newMaze(1) ]
    /\ world = {}
    /\ scene = {}
    /\ pending = {}
    /\ nextId = 2
    /\ mouseX = 0
    /\ mouseY = 0
    /\ menuVisible = TRUE
    /\ winOverlayVisible = FALSE
    /\ nextLevelCallback = 0
    /\ unlocked = { 1 }
    /\ frameLog = << >>
    /\ joy = NewJoystick
    /\ gyro = NewDeviceOrientationController(TRUE)
    /\ conv = NoConversion
    /\ pm = NoProgressManager
    /\ rk = NoRankingManager

\* Maze.load(path, options) and the loader's success callback
MazeLoad ==
    \E options \in MazeOptions :
        /\ ~lm.maze.loaded
        /\ lm' = [ lm EXCEPT !.maze = MazeOnLoad(lm.maze, options) ]
        /\ world' = world \cup { << "maze", lm.maze.id, 0 >> }
        /\ scene' = scene \cup { << "maze", lm.maze.id, 0 >> }
        /\ UNCHANGED << isPlaying, hasWon, currentLevelId, pending, nextId, mouseX, mouseY,
                        menuVisible, winOverlayVisible, nextLevelCallback, unlocked, frameLog,
                        joy, gyro, conv, pm, rk >>

\* a call of Maze.setRotation(x, y, z)
MazeSetRotation ==
    \E x \in MazeAngles, y \in { 0, 90 }, z \in MazeAngles :
        /\ lm' = [ lm EXCEPT !.maze = setRotation(lm.maze, x, y, z) ]
        /\ UNCHANGED << isPlaying, hasWon, currentLevelId, world, scene, pending, nextId,
                        mouseX, mouseY, menuVisible, winOverlayVisible, nextLevelCallback,
                        unlocked, frameLog, joy, gyro, conv, pm, rk >>

MazeNext == MazeLoad \/ MazeSetRotation

MazeSpec == MazeInit /\ [][MazeNext]_vars

----------------------------------------------------------------------------
(* createCompoundBodyFromModel on its own: one call, node by node *)

\* the call is entered with any model
ConvInit ==
    /\ GameInit
    /\ joy = NewJoystick
    /\ gyro = NewDeviceOrientationController(TRUE)
    /\ conv \in { newConversion(model) : model \in Models }
    /\ pm = NoProgressManager
    /\ rk = NoRankingManager

\* model.traverse visits the next node
TraverseChild ==
    /\ conv.result = "none"
    /\ conv.next \in 1..Len(conv.model)
    /\ conv' = traverseChild(conv)
    /\ UNCHANGED << isPlaying, hasWon, currentLevelId, lm, world, scene, pending, nextId,
                    mouseX, mouseY, menuVisible, winOverlayVisible, nextLevelCallback,
                    unlocked, frameLog, joy, gyro, pm, rk >>

\* the traversal is over: return body
ReturnBody ==
    /\ conv.result = "none"
    /\ conv.next = Len(conv.model) + 1
    /\ conv' = [ conv EXCEPT !.result = "body" ]
    /\ UNCHANGED << isPlaying, hasWon, currentLevelId, lm, world, scene, pending, nextId,
                    mouseX, mouseY, menuVisible, winOverlayVisible, nextLevelCallback,
                    unlocked, frameLog, joy, gyro, pm, rk >>

ConvNext == TraverseChild \/ ReturnBody

ConvSpec == ConvInit /\ [][ConvNext]_vars

----------------------------------------------------------------------------
(* The ProgressManager on its own: the page loads with any stored entry,    *)
(* constructs its manager and calls its methods in any order                *)

ProgressUntouched ==
    UNCHANGED << isPlaying, hasWon, currentLevelId, lm, world, scene, pending, nextId,
                 mouseX, mouseY, menuVisible, winOverlayVisible, nextLevelCallback,
                 unlocked, frameLog, joy, gyro, conv, rk >>

ProgressInit ==
    /\ GameInit
    /\ joy = NewJoystick
    /\ gyro = NewDeviceOrientationController(TRUE)
    /\ conv = NoConversion
    /\ rk = NoRankingManager
    /\ pm \in { newPage(s) : s \in StoredValues }

\* the page's script runs: new ProgressManager()
Construct ==
    /\ pm.page = "loading"
    /\ pm' = constructProgressManager(pm)
    /\ ProgressUntouched

UnlockLevel ==
    /\ pm.page = "ready"
    /\ \E levelId \in 1..TotalLevels : pm' = unlockLevel(pm, levelId)
    /\ ProgressUntouched

CompleteLevel ==
    /\ pm.page = "ready"
    /\ \E levelId \in 1..TotalLevels : pm' = completeLevel(pm, levelId, TotalLevels)
    /\ ProgressUntouched

ApplyToLevelsConfig ==
    /\ pm.page = "ready"
    /\ pm' = applyToLevelsConfig(pm)
    /\ ProgressUntouched

\* resetProgress; the player confirms or cancels
ResetProgress ==
    /\ pm.page = "ready"
    /\ \E confirmReset \in BOOLEAN :
          pm' = IF confirmReset THEN resetProgress(pm) ELSE pm
    /\ ProgressUntouched

ImportProgress ==
    /\ pm.page = "ready"
    /\ \E jsonString \in Strings : pm' = importProgress(pm, jsonString)
    /\ ProgressUntouched

ProgressNext ==
    \/ Construct
    \/ UnlockLevel
    \/ CompleteLevel
    \/ ApplyToLevelsConfig
    \/ ResetProgress
    \/ ImportProgress

ProgressSpec == ProgressInit /\ [][ProgressNext]_vars

----------------------------------------------------------------------------
(* The RankingManager on its own.  PointsSpec: completions of a known       *)
(* player are saved.  RankingSpec: getOrCreatePlayer calls run, each        *)
(* suspended at its awaits while the others and the database go on.         *)

RankingUntouched ==
    UNCHANGED << isPlaying, hasWon, currentLevelId, lm, world, scene, pending, nextId,
                 mouseX, mouseY, menuVisible, winOverlayVisible, nextLevelCallback,
                 unlocked, frameLog, joy, gyro, conv, pm >>

\* level_completions rows inserted in one behaviour
MaxCompletions == 2

\* getOrCreatePlayer calls made in one behaviour
MaxCalls == 3

\* completion times, in thousandths of a second
CompletionTimes ==
    { 0, 1, 1249, 1250, 45 * Scale, 60 * Scale, 120 * Scale, 300 * Scale, 600 * Scale,
      1125 * Scale - 1, 1125 * Scale, 1200 * Scale }

PlayerNames == { "SpeedRunner", "ProGamer" }

RankingInit ==
    /\ GameInit
    /\ joy = NewJoystick
    /\ gyro = NewDeviceOrientationController(TRUE)
    /\ conv = NoConversion
    /\ pm = NoProgressManager
    /\ rk = NoRankingManager

\* the player of the test data is in the table and is the current player
PointsInit ==
    /\ GameInit
    /\ joy = NewJoystick
    /\ gyro = NewDeviceOrientationController(TRUE)
    /\ conv = NoConversion
    /\ pm = NoProgressManager
    /\ rk = [ NoRankingManager EXCEPT
                !.players = << [ id |-> 1, name |-> "SpeedRunner" ] >>,
                !.currentPlayer = [ id |-> 1, name |-> "SpeedRunner" ] ]

SaveLevelCompletion ==
    /\ Len(rk.completions) < MaxCompletions
    /\ \E levelId \in Levels, time \in CompletionTimes, error \in BOOLEAN :
          rk' = saveLevelCompletion(rk, rk.currentPlayer.id, levelId, time, error)
    /\ RankingUntouched

PointsNext == SaveLevelCompletion

PointsSpec == PointsInit /\ [][PointsNext]_vars

\* getOrCreatePlayer is called
GetOrCreatePlayer ==
    /\ Len(rk.calls) < MaxCalls
    /\ \E playerName \in PlayerNames : rk' = getOrCreatePlayer(rk, playerName)
    /\ RankingUntouched

\* the select of a call answers; with several rows of the name, limit(1)
\* gives any one of them
SelectResolves ==
    /\ \E i \in 1..Len(rk.calls), error \in BOOLEAN :
          /\ rk.calls[i].pc = "select"
          /\ LET rows == playersNamed(rk, rk.calls[i].name)
             IN \E found \in (IF rows = {} THEN { NoPlayer } ELSE rows) :
                   rk' = afterSelect(rk, i, error, found)
    /\ RankingUntouched

\* the insert of a call answers
InsertResolves ==
    /\ \E i \in 1..Len(rk.calls), error \in BOOLEAN :
          /\ rk.calls[i].pc = "insert"
          /\ rk' = afterInsert(rk, i, error)
    /\ RankingUntouched

RankingNext ==
    \/ GetOrCreatePlayer
    \/ SelectResolves
    \/ InsertResolves

RankingSpec == RankingInit /\ [][RankingNext]_vars

----------------------------------------------------------------------------
(* Frames *)

\* the step is a frame that ran Game.update through to the zone evaluation
\* (a frame leaves the loads, the pointer and the menu alone)
ZonesEvaluated ==
    /\ \E i \in 1..Len(frameLog') : frameLog'[i] = "checkZones"
    /\ UNCHANGED << pending, nextId, mouseX, mouseY, menuVisible >>
    /\ Frame

\* the most recent frame ran Game.update through to the zone evaluation
EvaluatedLastFrame == \E i \in 1..Len(frameLog) : frameLog[i] = "checkZones"

----------------------------------------------------------------------------
(* Win detection and the won state *)

\* this step enters the won state
EntersWon == ~hasWon /\ hasWon'

AllZonesOccupied(l) == Len(l.zones) >= 1 /\ \A k \in 1..Len(l.zones) : l.zones[k].isGreen

\* C1: the won state is entered (hasWon set, play stopped, win overlay shown)
\* by exactly those steps that are a frame of a playing, not yet won game whose
\* zone evaluation leaves all N >= 1 zones occupied; with no zones it is never
\* entered, whatever frames, pause() and resume() calls happen
C1_WonExactlyWhenAllOccupied ==
    [][ /\ EntersWon <=> (isPlaying /\ ~hasWon /\ ZonesEvaluated /\ AllZonesOccupied(lm'))
        /\ EntersWon => (~isPlaying' /\ winOverlayVisible') ]_vars

\* C1 witness: the two-zone level has just been won with both zones occupied
C1_Witness ==
    /\ hasWon
    /\ ~isPlaying
    /\ currentLevelId = 2
    /\ EvaluatedLastFrame
    /\ Len(lm.zones) = 2
    /\ AllZonesOccupied(lm)

\* a call of Game.startLevel
StartLevelCall == LevelButtonClick \/ NextLevelClick

C3_FrozenWhenWon == [][ (hasWon /\ Frame) => lm' = lm ]_vars

----------------------------------------------------------------------------
(* Order of the steps of a frame *)

\* C4 (the claim as stated): a frame of a playing level runs tilt, setRotation,
\* boundary sync, zone sync, physics step, ball readback, evaluation, in this order
C4_SyncBeforeStep ==
    [][ (Frame /\ isPlaying /\ lm.maze.loaded /\ Len(lm.walls) = 4)
            => /\ Len(frameLog') >= 8
               /\ SubSeq(frameLog', 1, 8) =
                      << "readTilt", "setRotation", "syncGround", "syncWalls",
                         "syncZones", "worldStep", "syncBalls", "checkZones" >> ]_vars

----------------------------------------------------------------------------
(* Loading *)

\* the load started by the latest startLevel call has not settled yet
Loading == \E req \in pending : req.id = lm.maze.id

\* the load started by the latest startLevel call has failed
LoadFailed == lm.maze.id # 0 /\ ~lm.maze.loaded /\ ~Loading

\* C5 (the claim as stated): from the call of startLevel until its load has
\* resolved isPlaying is false
C5_NotPlayingWhileLoading == Loading => ~isPlaying

\* C6 (the claim as stated): after the maze asset failed to load isPlaying
\* remains false, whatever events follow, until a later startLevel
C6_NotPlayingAfterFailure == [][ (LoadFailed /\ ~isPlaying) => ~isPlaying' ]_vars

\* C7 (the claim as stated): unloadLevel leaves no body in the physics world and
\* no mesh in the scene, and the container empty
C7_UnloadLeavesNothing ==
    LET u == unloadLevel([ lm |-> lm, world |-> world, scene |-> scene ])
    IN u.world = {} /\ u.scene = {} /\ u.lm = EmptyLevelManager

----------------------------------------------------------------------------
(* Zone occupancy *)

\* C8: after each zone evaluation a zone is occupied iff the box of at least one
\* ball overlaps the zone's box on all three axes; the zone at (10,3,10) with
\* half-extents (1.5,0.5,1.5) is occupied by a ball of radius 0.5 at (10,3,10) and
\* not by one at (20,3,10)
C8_OccupiedIffBoxesOverlap ==
    /\ LET zone == [ bodyPosition |-> << 10000, 3000, 10000 >>,
                     halfExtents |-> << 1500, 500, 1500 >> ]
           ballAt(x, y, z) == [ bodyPosition |-> << x, y, z >>, radius |-> 500 ]
       IN /\ checkAABBCollision(zone, ballAt(10000, 3000, 10000))
          /\ ~checkAABBCollision(zone, ballAt(20000, 3000, 10000))
    /\ [][ LET \* the boxes [c - r, c + r] and [c - h, c + h] meet on every axis
               BoxesOverlap(zone, ball) ==
                   \A i \in 1..3 : Abs(ball.bodyPosition[i] - zone.bodyPosition[i])
                                       <= ball.radius + zone.halfExtents[i]
           IN ZonesEvaluated =>
                \A k \in 1..Len(lm'.zones) :
                    lm'.zones[k].isGreen <=>
                        \E b \in 1..Len(lm'.balls) :
                            BoxesOverlap(lm'.zones[k], lm'.balls[b]) ]_vars

\* C8 witness: an evaluation of the two-zone level left the first zone occupied,
\* with a ball at its centre, and the second zone, with no ball at its centre, free
C8_Witness ==
    /\ EvaluatedLastFrame
    /\ Len(lm.zones) = 2
    /\ lm.zones[1].isGreen
    /\ \E b \in 1..Len(lm.balls) : lm.balls[b].bodyPosition = lm.zones[1].bodyPosition
    /\ ~lm.zones[2].isGreen
    /\ \A b \in 1..Len(lm.balls) : lm.balls[b].bodyPosition # lm.zones[2].bodyPosition

----------------------------------------------------------------------------
(* Tilt *)

\* C9 (the claim as stated): the tilt read back from a loaded maze is within
\* [-maxTilt, +maxTilt] on X and Z and is 0 on Y
C9_TiltWithinMax ==
    lm.maze.loaded =>
        /\ Abs(lm.maze.meshRotation[1]) <= MaxTiltDeg
        /\ lm.maze.meshRotation[2] = 0
        /\ Abs(lm.maze.meshRotation[3]) <= MaxTiltDeg

----------------------------------------------------------------------------
(* Input signals *)

\* C10 (the claim as stated): after any sequence of input events the mouse
\* position, the joystick value and the gyroscope tilt are each within [-1, 1] on
\* both axes
C10_SignalsWithinUnit ==
    LET WithinUnit(v) == -Scale <= v /\ v <= Scale
    IN /\ WithinUnit(mouseX) /\ WithinUnit(mouseY)
       /\ WithinUnit(joy.value[1]) /\ WithinUnit(joy.value[2])
       /\ WithinUnit(gyro.tiltX) /\ WithinUnit(gyro.tiltZ)

----------------------------------------------------------------------------
(* Boundary planes *)

\* the step is a frame of a playing level in which syncGround and syncWalls went
\* through their bodies: the ground, the four walls and the maze root exist
BoundarySynced ==
    /\ isPlaying
    /\ lm.currentLevel # 0
    /\ lm.maze.mesh
    /\ lm.ground.present
    /\ Len(lm.walls) = 4
    /\ UNCHANGED << pending, nextId, mouseX, mouseY, menuVisible >>
    /\ Frame

\* C11 (the claim as stated): after a boundary sync the ground and each wall are
\* where they were created, rotated by the maze orientation, and their orientation
\* is the maze orientation times their reference orientation
C11_PlanesAtRotatedReference ==
    [][ BoundarySynced =>
          LET q == mazeMeshQuaternion(lm'.maze)
              created == wallConfigs(LEVELS_CONFIG[lm'.currentLevel].bounds)
          IN /\ lm'.ground.position = applyQuaternion(ZeroVec, q)
             /\ lm'.ground.quaternion = mult(q, setFromEuler(-90, 0, 0))
             /\ \A k \in 1..4 :
                  /\ lm'.walls[k].position = applyQuaternion(created[k].position, q)
                  /\ lm'.walls[k].quaternion = mult(q, lm'.wallOriginalQuaternions[k]) ]_vars

\* C12: the ground and wall positions after a sync do not depend on the maze
\* position: the same frame with the maze root anywhere else (the origin, the
\* root of the second level, a point off every axis) leaves all five planes at
\* the same positions
C12_PlanesIgnoreMazePosition ==
    [][ BoundarySynced =>
          \A p \in { Vec(0, 0, 0), Vec(0, 0, 3), Vec(5, 1, -2) } :
              LET moved == [ lm EXCEPT !.maze.meshPosition = p, !.maze.bodyPosition = p ]
                  alt == controllerUpdate(moved, mouseX, mouseY).lm
              IN /\ alt.ground.position = lm'.ground.position
                 /\ \A k \in 1..4 : alt.walls[k].position = lm'.walls[k].position ]_vars

\* C12 witness: the level whose maze root is off the origin has been synced under
\* a tilt, and its north wall is at the rotated reference with nothing added
C12_Witness ==
    /\ lm.currentLevel = 2
    /\ lm.maze.loaded
    /\ lm.maze.meshPosition = Vec(0, 0, 3)
    /\ lm.maze.meshRotation # << 0, 0, 0 >>
    /\ Len(frameLog) >= 5
    /\ frameLog[5] = "syncWalls"
    /\ Len(lm.walls) = 4
    /\ lm.walls[1].position =
           applyQuaternion(<< 0, 2 * Scale, -20 * Scale >>, mazeMeshQuaternion(lm.maze))

\* C13 (the claim as stated): after a boundary sync each wall is as far from the
\* world origin as it was when created, i.e. wallDistance (to within 0.05, which
\* covers the rounding of the fixed-point rotation)
C13_WallDistancePreserved ==
    [][ BoundarySynced =>
          \A k \in 1..4 :
              LET v == lm'.walls[k].position
                  distance == Sqrt(v[1] * v[1] + v[2] * v[2] + v[3] * v[3])
                  created == wallConfigs(LEVELS_CONFIG[lm'.currentLevel].bounds)[k].position
                  createdDistance == Sqrt(created[1] * created[1] + created[2] * created[2]
                                            + created[3] * created[3])
              IN Abs(distance - createdDistance) <= 50 ]_vars

----------------------------------------------------------------------------
(* Trigger zones *)

\* the step is a frame of a playing level in which syncZones went through its body
ZonesSynced ==
    /\ isPlaying
    /\ lm.currentLevel # 0
    /\ lm.maze.mesh
    /\ Len(lm.zones) > 0
    /\ Len(lm.walls) <= 4
    /\ UNCHANGED << pending, nextId, mouseX, mouseY, menuVisible >>
    /\ Frame

\* C14 (the claim as stated): after a zone sync every zone has the pose relative
\* to the maze root that it had at load, and its mesh and body have the same
\* pose.  At load the maze root is unrotated (every configured rotation is zero)
\* and the zone is at its configured position z, so with the root at m and the
\* maze orientation q the zone belongs at m + q(z - m), with orientation q
\* (positions to within 0.05, which covers the rounding of the fixed-point rotation)
C14_ZonesRigidWithMaze ==
    [][ ZonesSynced =>
          \A k \in 1..Len(lm'.zones) :
              LET q == mazeMeshQuaternion(lm'.maze)
                  m == lm'.maze.meshPosition
                  z == lm'.zoneOriginalPositions[k]
                  r == applyQuaternion([ i \in 1..3 |-> z[i] - m[i] ], q)
                  zone == lm'.zones[k]
              IN /\ \A i \in 1..3 : Abs(zone.bodyPosition[i] - (m[i] + r[i])) <= 50
                 /\ zone.bodyQuaternion = q
                 /\ zone.meshPosition = zone.bodyPosition
                 /\ zone.meshQuaternion = zone.bodyQuaternion ]_vars

----------------------------------------------------------------------------
(* The maze body and its visual root *)

\* C15 (the claim as stated): whenever the maze is loaded its body has the
\* position and the orientation of its visual root
C15_BodyMirrorsRoot ==
    lm.maze.loaded =>
        /\ lm.maze.bodyPosition = lm.maze.meshPosition
        /\ lm.maze.bodyQuaternion = mazeMeshQuaternion(lm.maze)

----------------------------------------------------------------------------
(* Mesh to collision body *)

\* C16: while createCompoundBodyFromModel runs, the body has one shape for each
\* visited mesh whose conversion succeeded and none for any other node, so never
\* more shapes than meshes; a mesh whose conversion throws is skipped and the
\* traversal goes on with the next node; the call never ends in an exception,
\* and when the traversal is over it returns the body
C16_ShapesAreConvertedMeshes ==
    LET visited == 1..(conv.next - 1)
        meshes == { i \in visited : conv.model[i] # "group" }
        converted == { i \in visited : conv.model[i] = "meshOk" }
    IN /\ conv.result # "exception"
       /\ conv.next >= 1 =>
            /\ Len(conv.shapes) = Cardinality(converted)
            /\ { conv.shapes[j] : j \in 1..Len(conv.shapes) } = converted
            /\ Len(conv.shapes) <= Cardinality(meshes)
            /\ conv.warnings = Cardinality({ i \in visited : conv.model[i] = "meshThrows" })
       /\ conv.result = "body" => conv.next = Len(conv.model) + 1

\* C16 witness: a body was returned for a model whose first mesh threw and whose
\* last mesh converted: one shape, two meshes
C16_Witness ==
    /\ conv.result = "body"
    /\ Len(conv.model) = 3
    /\ conv.model[1] = "meshThrows"
    /\ conv.model[3] = "meshOk"
    /\ conv.shapes = << 3 >>

----------------------------------------------------------------------------
(* Ball speed and out-of-bounds recovery.  The source has neither a maximum  *)
(* speed nor a floor threshold; the two values below stand for the ones the  *)
(* specification calls configured.                                           *)

\* the configured maximum ball speed, units/s
maxSpeed == 15 * Scale

\* the height below which a ball is out of bounds
floorThreshold == -10 * Scale

\* C17 (the claim as stated): the velocity a frame hands to the physics step has
\* magnitude at most maxSpeed for every ball (so a ball left at 2 x maxSpeed by
\* the previous step has been rescaled before the next one)
C17_SpeedClampedBeforeStep ==
    [][ \/ \A k \in 1..Len(lm.balls) :
               LET v == lm.balls[k].velocity
               IN v[1] * v[1] + v[2] * v[2] + v[3] * v[3] <= maxSpeed * maxSpeed
        \/ ~(UNCHANGED << pending, nextId, mouseX, mouseY, menuVisible >> /\ Frame) ]_vars

\* C18 (the claim as stated): a ball that the physics step of a frame of a playing
\* level leaves below the floor threshold is, at the end of that frame, at its
\* configured spawn position with zero velocity, zero angular velocity and
\* identity orientation, and the maze tilt and the pointer are back at zero
C18_OutOfBoundsReset ==
    [][ ( /\ isPlaying
          /\ lm.maze.loaded
          /\ Len(lm.walls) <= 4
          /\ UNCHANGED << pending, nextId, menuVisible >>
          /\ Frame )
        => \A newStates \in [ 1..Len(lm.balls) -> StepOutcomes(lm.currentLevel) ] :
             lm' = gameUpdate(worldStep(lm, newStates), mouseX, mouseY).lm =>
               \A k \in 1..Len(lm.balls) :
                   newStates[k].position[2] < floorThreshold =>
                     /\ lm'.balls[k].bodyPosition =
                            LEVELS_CONFIG[lm.currentLevel].balls[k].position
                     /\ lm'.balls[k].velocity = ZeroVec
                     /\ lm'.balls[k].angularVelocity = ZeroVec
                     /\ lm'.balls[k].bodyQuaternion = IdentityQuat
                     /\ lm'.maze.meshRotation = << 0, 0, 0 >>
                     /\ mouseX' = 0 /\ mouseY' = 0 ]_vars

----------------------------------------------------------------------------
(* The won signal *)

\* the step is a frame in which Game.update called onWin
WinSignalled ==
    /\ Len(frameLog') > 0
    /\ frameLog'[Len(frameLog')] = "onWin"
    /\ UNCHANGED << pending, nextId, mouseX, mouseY, menuVisible >>
    /\ Frame

\* C19: onWin is called only while hasWon is false and sets it, and hasWon is
\* cleared only by a startLevel call, so the UI is signalled at most once between
\* two startLevel calls; the signal shows the overlay and carries a continuation
\* exactly when the configuration has a level currentLevelId + 1; while the level
\* is won the stored continuation is the one for that level, and invoking it
\* unlocks that level and starts it
C19_WonSignalledOnce ==
    /\ [][ WinSignalled =>
             /\ ~hasWon /\ hasWon'
             /\ winOverlayVisible'
             /\ nextLevelCallback' # 0 <=> (currentLevelId + 1) \in DOMAIN LEVELS_CONFIG
             /\ nextLevelCallback' # 0 => nextLevelCallback' = currentLevelId + 1 ]_vars
    /\ [][ (hasWon /\ ~hasWon') => StartLevelCall ]_vars
    /\ [][ (hasWon /\ hasWon') => nextLevelCallback' = nextLevelCallback ]_vars
    /\ [][ NextLevelClick =>
             /\ hasWon => nextLevelCallback = currentLevelId + 1
             /\ unlocked' = unlocked \cup { nextLevelCallback }
             /\ currentLevelId' = nextLevelCallback
             /\ lm'.currentLevel = nextLevelCallback
             /\ \E req \in pending' \ pending :
                    req.level = nextLevelCallback /\ req.id = lm'.maze.id ]_vars

\* C19 witness: level 1 was won and its continuation unlocked and started level
\* 2, which has just been won in turn: signalled without a continuation
C19_Witness ==
    /\ hasWon
    /\ currentLevelId = 2
    /\ unlocked = { 1, 2 }
    /\ winOverlayVisible
    /\ nextLevelCallback = 0
    /\ Len(frameLog) > 0
    /\ frameLog[Len(frameLog)] = "onWin"

----------------------------------------------------------------------------
(* Unlocking the next level *)

\* C20 (the claim as stated): the frame that calls onWin leaves the next level,
\* if there is one, unlocked, and it is unlocked after either button of the win
\* overlay has been pressed
C20_WinUnlocksNext ==
    /\ [][ (WinSignalled /\ (currentLevelId + 1) \in DOMAIN LEVELS_CONFIG)
              => (currentLevelId + 1) \in unlocked' ]_vars
    /\ [][ ( /\ hasWon
             /\ (currentLevelId + 1) \in DOMAIN LEVELS_CONFIG
             /\ (NextLevelClick \/ MenuButtonClick) )
              => (currentLevelId + 1) \in unlocked' ]_vars

----------------------------------------------------------------------------
(* Player progress *)

\* C21: level 1 is always unlocked: whenever the page has its ProgressManager,
\* whatever entry it was constructed from and whatever calls of unlockLevel,
\* completeLevel, resetProgress and importProgress were made since,
\* isLevelUnlocked(1) returns true and applyToLevelsConfig leaves level 1
\* unlocked in the configuration.
C21_LevelOneAlwaysUnlocked ==
    pm.page = "ready" =>
        /\ isLevelUnlocked(pm.progress, 1) = [ threw |-> FALSE, value |-> TRUE ]
        /\ ~applyToLevelsConfig(pm).threw
        /\ 1 \in applyToLevelsConfig(pm).levelsUnlocked

\* C22: constructing a ProgressManager when the stored entry is missing or
\* corrupt (absent, not parseable, or not a record with the arrays
\* unlockedLevels and completedLevels) gives the default progress and writes
\* its text to the storage.
C22_CorruptStorageYieldsDefault ==
    [][ LET corrupt == \/ JSONparse(pm.storage).threw
                       \/ pm.storage.value.type # "object"
                       \/ ~({ "unlockedLevels", "completedLevels" } \subseteq pm.storage.value.has)
        IN (pm.page = "loading" /\ corrupt /\ Construct) =>
              /\ pm'.progress = defaultProgress
              /\ pm'.storage = JSONstringify(defaultProgress) ]_vars

----------------------------------------------------------------------------
(* Ranking *)

\* C23: for every completion time t >= 0, calculatePoints(t) is
\* max(1000 - floor(0.8 t), 100): every saved completion carries
\* 1000 - q, raised to at least 100, where q is the whole number with
\* q <= 0.8 t < q + 1; the points are between 100 and 1000, a longer time
\* never earns more points, and 45 s gives 964, 60 s 952, 300 s 760, 600 s 520
\* and 1200 s 100.
C23_PointsFormula ==
    LET rows == { rk.completions[i] : i \in 1..Len(rk.completions) }
        example(seconds, points) ==
            \A c \in rows : c.completion_time = seconds * Scale => c.points = points
    IN /\ \A c \in rows :
             /\ c.points \in 100..1000
             /\ \E q \in 0..1000 :
                   /\ q * 10 * Scale <= 8 * c.completion_time
                   /\ 8 * c.completion_time < (q + 1) * 10 * Scale
                   /\ c.points = IF 1000 - q >= 100 THEN 1000 - q ELSE 100
       /\ \A c, d \in rows : c.completion_time <= d.completion_time => c.points >= d.points
       /\ example(45, 964) /\ example(60, 952) /\ example(300, 760)
       /\ example(600, 520) /\ example(1200, 100)

\* a completion in 45 s and one in 1200 s have been saved
C23_Witness ==
    /\ Len(rk.completions) = 2
    /\ rk.completions[1].completion_time = 45 * Scale
    /\ rk.completions[1].points = 964
    /\ rk.completions[2].completion_time = 1200 * Scale
    /\ rk.completions[2].points = 100

\* C27: getOrCreatePlayer gets the player or creates it: at every moment of
\* every interleaving of calls there is at most one players row of a name,
\* and every call that has returned a row returned the row of its name, which
\* has also been made currentPlayer by then.
C27_OnePlayerPerName ==
    /\ \A name \in PlayerNames : Cardinality(playersNamed(rk, name)) <= 1
    /\ \A i \in 1..Len(rk.calls) :
          (rk.calls[i].pc = "done" /\ rk.calls[i].result # NoPlayer) =>
              /\ playersNamed(rk, rk.calls[i].name) = { rk.calls[i].result }
              /\ rk.currentPlayer # NoPlayer

----------------------------------------------------------------------------
(* Synchronizing before the maze is loaded *)

\* C24: synchronizing before a maze is loaded is a silent no-op: a frame of a
\* running game whose container has no maze, no current level, or a maze whose
\* load has not resolved goes through MazeController.update without an
\* exception (the frame goes on to evaluate the zones) and leaves the maze, the
\* ground, the walls and the transforms of the zones as they were; and
\* Maze.setRotation with any angles returns that maze unchanged.
C24_SyncBeforeLoadIsNoOp ==
    [][ ( /\ isPlaying
          /\ lm.maze.id = 0 \/ lm.currentLevel = 0 \/ ~lm.maze.loaded
          /\ UNCHANGED << pending, nextId, mouseX, mouseY, menuVisible >>
          /\ Frame ) =>
            /\ \E i \in 1..Len(frameLog') : frameLog'[i] = "checkZones"
            /\ lm'.maze = lm.maze
            /\ lm'.ground = lm.ground
            /\ lm'.walls = lm.walls
            /\ Len(lm'.zones) = Len(lm.zones)
            /\ \A k \in 1..Len(lm.zones) :
                  /\ lm'.zones[k].meshPosition = lm.zones[k].meshPosition
                  /\ lm'.zones[k].bodyPosition = lm.zones[k].bodyPosition
                  /\ lm'.zones[k].meshQuaternion = lm.zones[k].meshQuaternion
                  /\ lm'.zones[k].bodyQuaternion = lm.zones[k].bodyQuaternion
            /\ \A x, z \in MazeAngles : setRotation(lm.maze, x, 0, z) = lm.maze ]_vars

\* C24 witness: the first maze ever constructed is still loading, the game was
\* resumed meanwhile, and a frame has called setRotation on it with the
\* pointer off centre
C24_Witness ==
    /\ isPlaying
    /\ nextId = 2
    /\ lm.maze.id = 1
    /\ ~lm.maze.loaded
    /\ mouseX # 0
    /\ \E i \in 1..Len(frameLog) : frameLog[i] = "setRotation"
    /\ lm.maze = newMaze(1)

----------------------------------------------------------------------------
(* Zone state *)

\* C25: zone state changes only on transition edges: a zone is created
\* unoccupied and red; in a frame that evaluates the zones, a zone whose
\* overlap result in that frame equals its stored flag keeps flag and colour,
\* and one whose result differs gets the new flag; after the evaluation the
\* flag of every zone equals its overlap result, its colour is green exactly
\* when the flag is set, and the count checkZones reports is the number of
\* flagged zones, between 0 and the number of zones.
C25_ZonesChangeOnEdges ==
    [][ /\ \A k \in 1..Len(lm'.zones) :
              lm'.zones[k].key \notin Keys(lm.zones) =>
                  ~lm'.zones[k].isGreen /\ lm'.zones[k].color = "red"
        /\ ZonesEvaluated =>
              /\ Len(lm'.zones) = Len(lm.zones)
              /\ \A k \in 1..Len(lm'.zones) :
                    LET overlap == \E b \in 1..Len(lm'.balls) :
                                      checkAABBCollision(lm'.zones[k], lm'.balls[b])
                    IN /\ lm'.zones[k].isGreen = overlap
                       /\ lm'.zones[k].color = (IF overlap THEN "green" ELSE "red")
                       /\ overlap = lm.zones[k].isGreen =>
                             /\ lm'.zones[k].isGreen = lm.zones[k].isGreen
                             /\ lm'.zones[k].color = lm.zones[k].color
              /\ checkZones(lm').greenZones
                    = Cardinality({ k \in 1..Len(lm'.zones) : lm'.zones[k].isGreen })
              /\ checkZones(lm').greenZones \in 0..checkZones(lm').totalZones
              /\ checkZones(lm').totalZones = Len(lm'.zones) ]_vars

\* C25 witness: in the level of two zones the last frame evaluated them with a
\* ball in the second zone only: the second is green and the first red
C25_Witness ==
    /\ EvaluatedLastFrame
    /\ isPlaying
    /\ Len(lm.zones) = 2
    /\ ~lm.zones[1].isGreen /\ lm.zones[1].color = "red"
    /\ lm.zones[2].isGreen /\ lm.zones[2].color = "green"
    /\ \E b \in 1..Len(lm.balls) : checkAABBCollision(lm.zones[2], lm.balls[b])

----------------------------------------------------------------------------
(* Overlapping level loads *)

\* C26: once every load has settled and the maze of the level requested last
\* is loaded, the container and the physics world hold exactly the entities of
\* that level, however the startLevel calls and the loads were interleaved:
\* its maze is the only maze mesh in the scene and the only maze body in the
\* world, there is one ground, four walls with four reference orientations,
\* and the balls and zones of its configuration; the world holds the bodies of
\* these and nothing else, the scene the meshes of that maze, balls and zones
\* and nothing else.
C26_LastRequestedLevelOnly ==
    (pending = {} /\ lm.maze.loaded) =>
        LET cfg == LEVELS_CONFIG[currentLevelId]
            entities == { << "maze", lm.maze.id, 0 >>, lm.ground.key }
                           \cup Keys(lm.walls) \cup Keys(lm.balls) \cup Keys(lm.zones)
        IN /\ lm.currentLevel = currentLevelId
           /\ lm.ground.present
           /\ Len(lm.walls) = 4
           /\ Len(lm.wallOriginalQuaternions) = 4
           /\ Len(lm.balls) = Len(cfg.balls)
           /\ Len(lm.zones) = Len(cfg.zones)
           /\ Len(lm.zoneOriginalPositions) = Len(cfg.zones)
           /\ \A k \in 1..Len(lm.zones) : lm.zoneOriginalPositions[k] = cfg.zones[k].position
           /\ Cardinality(entities) = 6 + Len(cfg.balls) + Len(cfg.zones)
           /\ world = entities
           /\ scene = entities \ ({ lm.ground.key } \cup Keys(lm.walls))

----------------------------------------------------------------------------
(* Joystick ownership *)

\* C28: the joystick is owned by one pointer at a time: while a pointer is
\* captured, a pointerdown, pointermove or pointerup of any other pointer and
\* a W/A/S/D key event leave the captured pointer and the reported value as
\* they are; the capture ends only by the release (or cancel) of the capturing
\* pointer, which clears it and makes the value, which is what the listeners
\* were sent, (0,0).
C28_OnePointerOwnsJoystick ==
    [][ joy.pointerId # 0 =>
          /\ \A id \in PointerIds \ { joy.pointerId } :
                /\ \A e \in PointerDowns : onPointerDown(joy, id, e[1], e[2]) = joy
                /\ \A e \in PointerMoves : onPointerMove(joy, id, e[1], e[2]) = joy
                /\ onPointerUp(joy, id) = joy
          /\ \A k \in WASD :
                /\ onKeyDown(joy, k).value = joy.value
                /\ onKeyDown(joy, k).pointerId = joy.pointerId
                /\ onKeyUp(joy, k).value = joy.value
                /\ onKeyUp(joy, k).pointerId = joy.pointerId
          /\ onPointerUp(joy, joy.pointerId).pointerId = 0
          /\ onPointerUp(joy, joy.pointerId).value = << 0, 0 >>
          /\ joy'.pointerId # joy.pointerId =>
                /\ joy' = onPointerUp(joy, joy.pointerId)
                /\ joy'.pointerId = 0
                /\ joy'.value = << 0, 0 >>
          /\ joy'.value # joy.value =>
                \/ joy' = onPointerUp(joy, joy.pointerId)
                \/ \E e \in PointerMoves : joy' = onPointerMove(joy, joy.pointerId, e[1], e[2]) ]_vars

\* C28 witness: W was pressed while a pointer was captured and the pointer has
\* been released since: no capture, value (0,0), W still held
C28_Witness ==
    /\ joy.pointerId = 0
    /\ joy.value = << 0, 0 >>
    /\ joy.keys = { "w" }

\* C29: whenever no pointer is captured, the reported value is the unit-length
\* direction of the W/A/S/D keys held at that moment, (0,0) when none is held
\* or the held keys cancel.
C29_ValueIsKeyDirection ==
    joy.pointerId = 0 => joy.value = applyKeyboard(joy.keys)

----------------------------------------------------------------------------
(* Gyroscope gating *)

\* C30: the gyroscope is gated by permission: in every reachable state of the
\* controller, enabled implies supported and permissionGranted; enable()
\* changes nothing (and returns false) when support or permission is missing;
\* and while the controller is not enabled, i.e. from disable() until enable()
\* succeeds again, the reported tilt is (0,0), device-orientation events
\* reaching no listener.
C30_GyroGatedByPermission ==
    /\ gyro.enabled => gyro.supported /\ gyro.permissionGranted
    /\ (~gyro.supported \/ ~gyro.permissionGranted) => enable(gyro) = gyro
    /\ disable(gyro).tiltX = 0 /\ disable(gyro).tiltZ = 0 /\ ~disable(gyro).enabled
    /\ ~gyro.enabled => gyro.tiltX = 0 /\ gyro.tiltZ = 0

====
